---- MODULE Spec2Model ----
(***************************************************************************)
(* The cross-model relations worker of juju (worker/remoterelations): the  *)
(* Remote Relations Coordinator, its Remote Application Workers and their  *)
(* leaf watchers, observed the way remoterelations_test.go observes them:  *)
(* through the calls made on the relations facades and the killed state of *)
(* the watchers the facades handed out.                                    *)
(***************************************************************************)
EXTENDS Integers, Sequences, FiniteSets, TLC

\* ------------------------------------------------------------------------
\* Bounds of the model.

\* Batches of the applications watcher and of the relations watchers
\* delivered in one behaviour.
MaxSteps == 3

\* Batches of the relation-units and relation-status watchers delivered in
\* one behaviour.
MaxChanges == 1

\* Local unit batches put on the watch streams in one behaviour.
MaxBatches == 3

\* Calls of SetResource and SetUnitResource made in one behaviour.
MaxSets == 2

\* Documents inserted or removed by other writers in one behaviour.
MaxWrites == 2

\* ------------------------------------------------------------------------
\* Names, tags, tokens and credentials.

\* The remote applications of the tests.
Apps == {"db2", "mysql"}

\* The relation keys: the relation of the tests and a second one, both
\* against db2.
Rels == {"db2:db django:db", "db2:db wiki:db"}

\* The remote application a relation key belongs to.
RelApp(r) == IF r \in {"db2:db django:db", "db2:db wiki:db"} THEN "db2" ELSE "mysql"

\* relationEndpointInfo.localApplicationName of a relation key.
LocalApp(r) == IF r = "db2:db wiki:db" THEN "wiki" ELSE "django"

\* The three leaf watchers of an active relation.
Sides == {"local-units", "remote-units", "remote-status"}

ModelUUID == "local-model-uuid"
RemoteModelUUID == "remote-model-uuid"

ApplicationTag(name) == <<"application", name>>
RelationTag(key) == <<"relation", key>>
ModelTag(uuid) == <<"model", uuid>>

\* The mock facades hand out "token-<id>" for an entity.
Token(id) == <<"token", id>>
NoToken == <<>>

\* newMockRemoteApplication: the offer UUID is "offer-<name>-uuid".
OfferUUID(app) == <<"offer", app, "uuid">>

\* The macaroon of the remote application, presented on registration.
AppMacaroon == "test"

\* Macaroons the remote side may return from RegisterRemoteRelations.
RegisterMacaroons == {"apimac", "apimac2"}

\* ------------------------------------------------------------------------
\* Unit names and the unit number parsed from them.

RECURSIVE Digits(_)
\* The decimal digits of n > 0, most significant first.
Digits(n) == IF n < 10 THEN <<n>> ELSE Append(Digits(n \div 10), n % 10)

\* The unit name "unit/<n>", one element per name part and digit.
UnitName(n) == <<"unit", "/">> \o Digits(n)

\* The units of the related application.
Units == {UnitName(1), UnitName(12)}

RECURSIVE Atoi(_)
\* strconv.Atoi of a sequence of digits.
Atoi(ds) == IF ds = <<>> THEN 0
            ELSE 10 * Atoi(SubSeq(ds, 1, Len(ds) - 1)) + ds[Len(ds)]

\* The ordinal suffix of a unit name: what follows the "/".
UnitNumFirstDigit(name) == name[3]
UnitNum(name) == Atoi(SubSeq(name, 3, Len(name)))

\* names.NewUnitTag(name): "unit-<application>-<number>".
UnitTag(name) == <<"unit", name[1]>> \o SubSeq(name, 3, Len(name))

\* ------------------------------------------------------------------------
\* params.RemoteRelationChangeEvent, with Go's zero values for unset fields.
\* Suspended is a *bool: <<>> is nil, <<b>> is a pointer to b.

NilBool == <<>>
PtrBool(b) == <<b>>

ZeroEvent ==
    [Life |-> "", ApplicationToken |-> NoToken, RelationToken |-> NoToken,
     Suspended |-> NilBool, ChangedUnits |-> <<>>, DepartedUnits |-> <<>>,
     Macaroons |-> <<>>]

\* One recorded call: the operation, its arguments, and whether it failed.
Call(op, args, failed) == [op |-> op, args |-> args, failed |-> failed]

\* The kill of a leaf watcher, recorded among the calls of a handler.
KillOp == "Kill"

\* ------------------------------------------------------------------------
\* Errors.

NoError == [msg |-> "", change |-> ZeroEvent, model |-> "", cause |-> ""]

\* The error injected by the tests' stub.
Failed == "failed"

\* errors.Annotatef(err, "publishing relation change %+v to remote model %v")
PublishErrorUnwrapped(change, cause) ==
    [msg |-> "", change |-> ZeroEvent, model |-> "", cause |-> cause]
PublishError(change, cause) ==
    [msg |-> "publishing relation change", change |-> change,
     model |-> RemoteModelUUID, cause |-> cause]

ConsumeError(change, cause) ==
    [msg |-> "consuming relation change", change |-> change,
     model |-> RemoteModelUUID, cause |-> cause]

\* ------------------------------------------------------------------------
\* State.

VARIABLES
    coord,      \* the Coordinator: [state, err]
    appsWatcher,\* live handles of the remote applications watcher (0 or 1)
    workers,    \* per application name: its Remote Application Worker
    relations,  \* per relation key: the owning worker's entry (tokens, macaroon)
    watchers,   \* per relation key and side: live leaf watcher handles
    calls,      \* the calls made by the handler that ran last (stub.Calls())
    last,       \* the watch batch that handler was given
    steps,      \* applications and relations batches delivered so far
    changes,    \* relation-units and relation-status batches delivered so far
    facade,     \* per relation key: what the handshake stored in the local model
    inflight,   \* per worker: whether it waits inside a facade call
    stream,     \* per relation key: local unit batches delivered, not yet handled
    delivered,  \* per relation key: every local unit batch delivered, in order
    published,  \* per relation key: every event handed to PublishRelationChange
    store,      \* the resources collection: per document ID, the document
    txn,        \* the transaction source handed to PersistenceBase.Run, if any
    outcome,    \* what the last call of the resource persistence returned
    sets,       \* calls of the resource persistence made so far
    writes,     \* documents inserted or removed by other writers so far
    request,    \* the last call of the resource persistence: function, arguments
    docs,       \* the documents of the service, as the resources query returns them
    listed,     \* what ListResources returned, once called
    pending     \* what ListPendingResources returned, once called

\* The local watch streams and their histories.
streamVars == <<stream, delivered, published>>

\* The resource persistence.
persistenceVars == <<store, txn, outcome, sets, writes, request>>

\* The listing of the service's resources.
listVars == <<docs, listed, pending>>

\* The worker tree.
workerVars ==
    <<coord, appsWatcher, workers, relations, watchers, calls, last, steps, changes,
      facade>>
treeVars == <<workerVars, inflight>>

\* What is no part of the worker tree.
offWorker == <<streamVars, persistenceVars, listVars>>

\* What the worker tree leaves alone when each handler is one step.
offTree == <<inflight, offWorker>>

vars == <<coord, appsWatcher, workers, relations, watchers, calls, last, steps, changes,
          facade, inflight, streamVars, persistenceVars, listVars>>

\* No worker is tracked under the name.
\* killed counts the watcher handles killed when the worker ended.
NoWorker ==
    [state |-> "none", err |-> NoError, registered |-> FALSE, relWatcher |-> 0,
     killed |-> 0]

\* The relation is not in the worker's table.
NoRelation ==
    [active |-> FALSE, relationToken |-> NoToken, applicationToken |-> NoToken,
     remoteAppToken |-> NoToken, macaroon |-> ""]

NoWatchers == [s \in Sides |-> 0]

\* The local model holds nothing for the relation.  sighted tells whether the
\* key was reported alive to the worker now running, with no removal since.
NothingStored ==
    [sighted |-> FALSE, exported |-> FALSE, macaroon |-> "", imported |-> FALSE]

\* Those that can wait inside a facade call: the Coordinator and each
\* Remote Application Worker, its leaf watchers' loops included.
CoordinatorName == "coordinator"
Waiters == Apps \cup {CoordinatorName}

SeqRange(s) == {s[i] : i \in DOMAIN s}

\* The sequences of distinct elements of S.
DistinctSeqs(S) ==
    UNION {{s \in [1 .. n -> S] : \A i, j \in 1 .. n : i # j => s[i] # s[j]}
             : n \in 0 .. Cardinality(S)}

RECURSIVE Flatten(_)
\* The concatenation of a sequence of sequences.
Flatten(ss) == IF ss = <<>> THEN <<>> ELSE Head(ss) \o Flatten(Tail(ss))

\* Fixed orders in which a dying parent kills its children.
SideOrder == <<"local-units", "remote-units", "remote-status">>
RelOrder == <<"db2:db django:db", "db2:db wiki:db">>

\* The live Remote Application Workers.
LiveWorkers == {a \in Apps : workers[a].state = "running"}

\* The leaf watchers alive under one relation / under one application.
LiveRelationWatchers(r) == {s \in Sides : watchers[r][s] > 0}

\* Killing the leaf watchers of relation r, in order.
RelationKills(r) ==
    Flatten([i \in 1 .. Len(SideOrder) |->
        IF watchers[r][SideOrder[i]] > 0
        THEN <<Call(KillOp, <<r, SideOrder[i]>>, FALSE)>> ELSE <<>>])

\* Killing everything a Remote Application Worker owns: its relations
\* watcher and the leaf watchers of each of its relations.
WorkerKills(a) ==
    (IF workers[a].relWatcher > 0
     THEN <<Call(KillOp, <<a, "relations">>, FALSE)>> ELSE <<>>)
    \o Flatten([i \in 1 .. Len(RelOrder) |->
        IF RelApp(RelOrder[i]) = a THEN RelationKills(RelOrder[i]) ELSE <<>>])

\* The relation table and the leaf watchers once the workers in `dead` are gone.
RelationsWithout(dead) ==
    [r \in Rels |-> IF RelApp(r) \in dead THEN NoRelation ELSE relations[r]]
WatchersWithoutAny(dead) ==
    [r \in Rels |-> IF dead # {} THEN NoWatchers ELSE watchers[r]]
WatchersWithout(dead) ==
    [r \in Rels |-> IF RelApp(r) \in dead THEN NoWatchers ELSE watchers[r]]

\* What the local model holds once the workers in `dead` are gone: what was
\* stored stays, the sightings were theirs.
FacadeWithout(dead) ==
    [r \in Rels |-> IF RelApp(r) \in dead THEN [facade[r] EXCEPT !.sighted = FALSE]
                    ELSE facade[r]]

\* ------------------------------------------------------------------------
\* The documents of the resource persistence.

\* The resource and the unit of the model.
ResourceID == "a-service/spam"
UnitID == "a-service/0"

\* The document IDs: of a resource of the service, and of a unit's resource.
resourceID(id) == <<"resource", id>>
unitResourceID(unitID, id) == <<"resource", id, "unit", unitID>>
stagedID(id) == <<"resource", id, "staged">>
DocIDs ==
    {resourceID(ResourceID), unitResourceID(UnitID, ResourceID), stagedID(ResourceID)}

\* No document is stored under an ID.
NoDoc == [present |-> FALSE, Revision |-> 0, StoragePath |-> ""]

\* storedResource{}: the zero value.
NoStored ==
    [Resource |-> [ID |-> "", Revision |-> 0, valid |-> FALSE], storagePath |-> ""]

\* No transaction is running.
NoTxn == [fn |-> "", id |-> <<>>, stored |-> NoStored, attempt |-> 0]

\* No call of the resource persistence was made.
NoRequest ==
    [fn |-> "", unit |-> "", res |-> NoStored.Resource, storagePath |-> ""]

\* The collection is empty and no call was made.
StoreEmpty ==
    /\ store = [id \in DocIDs |-> NoDoc]
    /\ txn = NoTxn
    /\ outcome = ""
    /\ sets = 0
    /\ writes = 0
    /\ request = NoRequest

\* Neither list was asked for.
NotListed == [done |-> FALSE, Resources |-> <<>>, UnitResources |-> <<>>, err |-> ""]
NoPending == [done |-> FALSE, resources |-> <<>>, err |-> ""]

\* The service has no documents and no list was asked for.
ListsEmpty ==
    /\ docs = <<>>
    /\ listed = NotListed
    /\ pending = NoPending

\* No local unit batch is under way.
StreamsEmpty ==
    /\ stream = [r \in Rels |-> <<>>]
    /\ delivered = [r \in Rels |-> <<>>]
    /\ published = [r \in Rels |-> <<>>]

Init ==
    /\ coord = [state |-> "running", err |-> NoError]
    /\ appsWatcher = 1
    /\ workers = [a \in Apps |-> NoWorker]
    /\ relations = [r \in Rels |-> NoRelation]
    /\ watchers = [r \in Rels |-> NoWatchers]
    /\ calls = <<Call("WatchRemoteApplications", <<>>, FALSE)>>
    /\ last = [op |-> "new"]
    /\ steps = 0
    /\ changes = 0
    /\ facade = [r \in Rels |-> NothingStored]
    /\ inflight = [w \in Waiters |-> FALSE]
    /\ StreamsEmpty
    /\ StoreEmpty
    /\ ListsEmpty

\* ------------------------------------------------------------------------
\* The Coordinator's handler of one Applications-watch batch.

\* The batches of the applications watcher: application names, each once.
AppBatches == DistinctSeqs(Apps) \ {<<>>}

\* What RemoteApplications answers for a name: the application (flagged
\* registered or not), a not-found error, or another error.
Resolutions == {"found", "registered", "notfound", "error"}

\* A worker is started for every application the facade resolves, flagged
\* registered or not.
StartsWorkerUnregistered(res) == res = "found"
StartsWorker(res) == res \in {"found", "registered"}

\* A not-found application has its worker stopped.
StopsWorkerOnAnyError(res) == res \in {"notfound", "error"}
StopsWorker(res) == res = "notfound"

\* Whether the Coordinator's table holds a worker under the name: one it
\* started and has not stopped, nor seen die.
Tracked(name) == workers[name].state \in {"running", "failed"}

\* The calls and kills made for one name of the batch.
ApplicationCalls(name, res) ==
    IF StartsWorker(res) /\ ~Tracked(name)
    THEN <<Call("WatchRemoteApplicationRelations", <<name>>, FALSE)>>
    ELSE IF StopsWorker(res) /\ workers[name].state = "running"
    THEN WorkerKills(name)
    ELSE <<>>

\* The worker tracked under a name of the batch afterwards; a started worker
\* subscribes to the relations of its application.
ApplicationWorkerStartedAgain(name, res) ==
    IF StartsWorker(res)
    THEN [state |-> "running", err |-> NoError,
          registered |-> (res = "registered"),
          relWatcher |-> workers[name].relWatcher + 1, killed |-> 0]
    ELSE IF StopsWorker(res) /\ workers[name].state = "running"
    THEN NoWorker
    ELSE workers[name]
ApplicationWorker(name, res) ==
    IF StartsWorker(res) /\ ~Tracked(name)
    THEN [state |-> "running", err |-> NoError,
          registered |-> (res = "registered"),
          relWatcher |-> workers[name].relWatcher + 1, killed |-> 0]
    ELSE IF StopsWorker(res) /\ workers[name].state = "running"
    THEN NoWorker
    ELSE workers[name]

handleApplicationChanges(batch, res) ==
    /\ coord.state = "running"
    /\ steps < MaxSteps
    /\ LET names == SeqRange(batch)
           stopped == {a \in names : StopsWorker(res[a]) /\ workers[a].state = "running"}
       IN /\ workers' = [a \in Apps |->
                IF a \in names THEN ApplicationWorker(a, res[a]) ELSE workers[a]]
          /\ relations' = RelationsWithout(stopped)
          /\ watchers' = WatchersWithout(stopped)
          /\ facade' = FacadeWithout(stopped)
          /\ calls' = <<Call("RemoteApplications", <<batch>>, FALSE)>>
                \o Flatten([i \in 1 .. Len(batch) |->
                              ApplicationCalls(batch[i], res[batch[i]])])
          /\ last' = [op |-> "applications", batch |-> batch, res |-> res,
                      before |-> LiveWorkers,
                      dead |-> {a \in Apps : workers[a].state = "failed"}]
    /\ steps' = steps + 1
    /\ UNCHANGED <<coord, appsWatcher, changes>>

HandleApplications ==
    \E batch \in AppBatches :
        \E res \in [SeqRange(batch) -> Resolutions] :
            handleApplicationChanges(batch, res)

\* ------------------------------------------------------------------------
\* The Remote Application Worker's handler of one relations-watch batch.

\* What Relations answers for a key: the relation with its life, not found,
\* or another error.
RelationResults == {"alive", "dying", "notfound", "error"}

\* relationEndpointInfo of the tests' relations.
RemoteEndpoint == [Name |-> "db2", Role |-> "requires", Interface |-> "db2"]
RemoteEndpointName == "data"

\* The registration handshake of relation r, up to the import of the remote
\* application's token; mac is the macaroon RegisterRemoteRelations returns.
RegisterCallsSaveFirst(r, mac) ==
    <<Call("ControllerAPIInfoForModel", <<RemoteModelUUID>>, FALSE),
      Call("ExportEntities", <<<<ApplicationTag(LocalApp(r)), RelationTag(r)>>>>, FALSE),
      Call("SaveMacaroon", <<RelationTag(r), mac>>, FALSE),
      Call("RegisterRemoteRelations",
           <<<<[ApplicationToken |-> Token(LocalApp(r)),
               SourceModelTag |-> ModelTag(ModelUUID),
               RelationToken |-> Token(r),
               RemoteEndpoint |-> RemoteEndpoint,
               OfferUUID |-> OfferUUID(RelApp(r)),
               LocalEndpointName |-> RemoteEndpointName,
               Macaroons |-> <<AppMacaroon>>]>>>>, FALSE),
      Call("ImportRemoteEntity",
           <<ApplicationTag(RelApp(r)), Token(OfferUUID(RelApp(r)))>>, FALSE)>>
RegisterCalls(r, mac) ==
    <<Call("ControllerAPIInfoForModel", <<RemoteModelUUID>>, FALSE),
      Call("ExportEntities", <<<<ApplicationTag(LocalApp(r)), RelationTag(r)>>>>, FALSE),
      Call("RegisterRemoteRelations",
           <<<<[ApplicationToken |-> Token(LocalApp(r)),
               SourceModelTag |-> ModelTag(ModelUUID),
               RelationToken |-> Token(r),
               RemoteEndpoint |-> RemoteEndpoint,
               OfferUUID |-> OfferUUID(RelApp(r)),
               LocalEndpointName |-> RemoteEndpointName,
               Macaroons |-> <<AppMacaroon>>]>>>>, FALSE),
      Call("SaveMacaroon", <<RelationTag(r), mac>>, FALSE),
      Call("ImportRemoteEntity",
           <<ApplicationTag(RelApp(r)), Token(OfferUUID(RelApp(r)))>>, FALSE)>>

\* The handshake steps, and the starts of the three leaf watchers after them.
RegisterSteps == 1 .. 5
WatchSteps == 6 .. 8

\* The leaf watchers started once the handshake is through.
WatchCalls(r, mac) ==
    <<Call("WatchLocalRelationUnits", <<r>>, FALSE),
      Call("WatchRelationUnits", <<Token(r), <<mac>>>>, FALSE),
      Call("WatchRelationSuspendedStatus", <<Token(r), <<mac>>>>, FALSE)>>

\* The leaf watchers already started when the watch call of step failAt
\* fails are killed again.
StartedKills(r, failAt) ==
    IF failAt \in WatchSteps
    THEN [i \in 1 .. failAt - 6 |-> Call(KillOp, <<r, SideOrder[i]>>, FALSE)]
    ELSE <<>>

\* The calls of a handshake whose step failAt fails (0: none fails).
HandshakeCalls(r, mac, failAt) ==
    LET all == RegisterCalls(r, mac) \o WatchCalls(r, mac)
    IN IF failAt = 0
       THEN all
       ELSE [i \in 1 .. failAt |->
               IF i = failAt THEN [all[i] EXCEPT !.failed = TRUE] ELSE all[i]]
            \o StartedKills(r, failAt)

\* Whether the handshake went through and every watcher started: only then
\* is the relation entered in the worker's table.
HandshakeDoneButImport(failAt) == failAt \in {0, 5}
HandshakeDone(failAt) == failAt = 0

\* What the local model holds for relation r after a handshake whose step
\* failAt failed: ExportEntities stored the tokens, SaveMacaroon the
\* macaroon, ImportRemoteEntity the remote application's token, each once it
\* succeeded, whatever became of the steps after it.
Stored(r, mac, failAt) ==
    [sighted |-> TRUE,
     exported |-> facade[r].exported \/ failAt = 0 \/ failAt > 2,
     macaroon |-> IF failAt = 0 \/ failAt > 4 THEN mac ELSE facade[r].macaroon,
     imported |-> facade[r].imported \/ failAt = 0 \/ failAt > 5]

\* The worker's entry for a registered relation.
RegisteredRelation(r, mac) ==
    [active |-> TRUE, relationToken |-> Token(r),
     applicationToken |-> Token(LocalApp(r)),
     remoteAppToken |-> Token(OfferUUID(RelApp(r))), macaroon |-> mac]

\* The terminal event told to the remote side about a relation going away.
DyingEventNoMacaroon(rel) ==
    [ZeroEvent EXCEPT !.Life = "dying",
                      !.ApplicationToken = rel.applicationToken,
                      !.RelationToken = rel.relationToken]
DyingEvent(rel) ==
    [ZeroEvent EXCEPT !.Life = "dying",
                      !.ApplicationToken = rel.applicationToken,
                      !.RelationToken = rel.relationToken,
                      !.Macaroons = <<rel.macaroon>>]

\* A relation of the table went away: the remote side is told, then the
\* relation's leaf watchers are killed (in that order: spec 4.2), whether
\* or not the remote side could be told (spec 7).  failAt = 1: the lookup of
\* the relation's token fails, and the worker either tells the remote side
\* with the tokens it cached (stale) or tells it nothing (spec 9 leaves it
\* open); failAt = 2: the publish fails.
RelationGoneCallsStopOnFailure(r, failAt, stale) ==
    <<Call("GetToken", <<RelationTag(r)>>, failAt = 1)>>
    \o (IF failAt = 1 /\ ~stale THEN <<>>
        ELSE <<Call("PublishRelationChange", <<DyingEvent(relations[r])>>, failAt = 2)>>)
    \o (IF failAt # 0 THEN <<>> ELSE RelationKills(r))
RelationGoneCalls(r, failAt, stale) ==
    <<Call("GetToken", <<RelationTag(r)>>, failAt = 1)>>
    \o (IF failAt = 1 /\ ~stale THEN <<>>
        ELSE <<Call("PublishRelationChange", <<DyingEvent(relations[r])>>, failAt = 2)>>)
    \o RelationKills(r)

\* Whether a reported relation is new to the worker and to be registered.
IsNewRelationAlways(r, result) == result = "alive"
IsNewRelation(r, result) == ~relations[r].active /\ result = "alive"

\* Whether a reported relation is one of the table that went away.
IsRelationGone(r, result) == relations[r].active /\ result \in {"dying", "notfound"}

\* Whether the worker's application is already registered with the offering
\* model, so that its relations are only looked up.
IsRegisteredNever(a) == FALSE
IsRegistered(a) == workers[a].registered

\* The error a worker dies of when a leaf watcher cannot be started.
WatchError(r, cause) == [msg |-> "watching relation", key |-> r, cause |-> cause]

\* A worker dies of an error: everything it owns is killed with it.
FailedWorker(a, err) ==
    [state |-> "failed", err |-> err, registered |-> workers[a].registered,
     relWatcher |-> 0, killed |-> Len(WorkerKills(a))]

\* stale and fatal are the two choices neither the spec nor the tests
\* settle: whether a relation going away is still told to the remote side
\* when its token cannot be looked up, and whether a leaf watcher that cannot
\* be started ends the worker or only the registration of the relation.
relationChanged(a, r, result, mac, failAt, stale, fatal) ==
    /\ workers[a].state = "running"
    /\ workers[a].relWatcher > 0
    /\ RelApp(r) = a
    /\ steps < MaxSteps
    /\ LET query == <<Call("Relations", <<<<r>>>>, result = "error")>>
       IN IF result = "error" \/ IsRegistered(a)
          THEN /\ failAt = 0 /\ ~stale /\ ~fatal
               /\ calls' = query
               /\ UNCHANGED <<workers, relations, watchers, facade>>
          ELSE IF IsRelationGone(r, result)
          THEN /\ failAt \in 0 .. 2 /\ ~fatal /\ (stale => failAt = 1)
               /\ calls' = query \o RelationGoneCalls(r, failAt, stale)
               /\ relations' = [relations EXCEPT ![r] = NoRelation]
               /\ watchers' = [watchers EXCEPT ![r] = NoWatchers]
               /\ facade' = [facade EXCEPT ![r].sighted = FALSE]
               /\ UNCHANGED workers
          ELSE IF IsNewRelation(r, result)
          THEN /\ ~stale /\ (fatal => failAt \in WatchSteps)
               /\ calls' = query \o HandshakeCalls(r, mac, failAt)
                              \o (IF fatal THEN WorkerKills(a) ELSE <<>>)
               /\ IF fatal
                  THEN /\ workers' = [workers EXCEPT ![a] =
                            [FailedWorker(a, WatchError(r, Failed)) EXCEPT
                                !.killed = @ + Len(StartedKills(r, failAt))]]
                       /\ relations' = RelationsWithout({a})
                       /\ watchers' = WatchersWithout({a})
                       /\ facade' = [FacadeWithout({a}) EXCEPT ![r] =
                            [Stored(r, mac, failAt) EXCEPT !.sighted = FALSE]]
                  ELSE /\ facade' = [facade EXCEPT ![r] = Stored(r, mac, failAt)]
                       /\ UNCHANGED workers
                       /\ IF HandshakeDone(failAt)
                          THEN /\ relations' = [relations EXCEPT ![r] =
                                                  RegisteredRelation(r, mac)]
                               /\ watchers' = [watchers EXCEPT ![r] =
                                                 [s \in Sides |-> watchers[r][s] + 1]]
                          ELSE UNCHANGED <<relations, watchers>>
          ELSE /\ failAt = 0 /\ ~stale /\ ~fatal
               /\ calls' = query
               /\ facade' = IF result = "alive" THEN facade
                            ELSE [facade EXCEPT ![r].sighted = FALSE]
               /\ UNCHANGED <<workers, relations, watchers>>
    /\ last' = [op |-> "relations", app |-> a, key |-> r, result |-> result,
                before |-> relations[r], watching |-> LiveRelationWatchers(r),
                stored |-> facade[r]]
    /\ steps' = steps + 1
    /\ UNCHANGED <<coord, appsWatcher, changes>>

HandleRelations ==
    \E r \in Rels :
        /\ workers[RelApp(r)].state = "running"
        /\ \E result \in RelationResults, mac \in RegisterMacaroons :
             \E failAt \in {0} \cup RegisterSteps \cup WatchSteps :
                 \E stale \in IF failAt = 1 THEN BOOLEAN ELSE {FALSE},
                    fatal \in IF failAt \in WatchSteps THEN BOOLEAN ELSE {FALSE} :
                     relationChanged(RelApp(r), r, result, mac, failAt, stale, fatal)

\* ------------------------------------------------------------------------
\* Translation of relation-unit and relation-status change batches.

\* The settings the facades hold for the units: in the tests {foo: bar} for
\* the unit asked for; held differently for the second unit, so that which
\* settings go with which unit shows.
TestSettings == [u \in Units |-> [foo |-> "bar"]]
SettingsHeld == {TestSettings, [TestSettings EXCEPT ![UnitName(12)] = [foo |-> "baz"]]}

\* The settings of a unit, and a facade's answer to a fetch: the settings of
\* the units asked for, in the order asked.
UnitSettings(held, unit) == held[unit]
RelationUnitSettings(held, units) ==
    [i \in 1 .. Len(units) |-> UnitSettings(held, units[i])]

\* Relation life as a status watcher reports it.
StatusLives == {"alive", "dying"}

\* A watcher.RelationUnitsChange: the changed units in the order the Changed
\* map happens to be iterated, and the departed units.  A unit may be in
\* both, and a batch may hold nothing.
UnitsChanges == [changed : DistinctSeqs(Units), departed : DistinctSeqs(Units)]

\* The changed units whose settings are fetched, as the map is iterated:
\* those that did not depart in the same batch.
Fetched(change) ==
    SelectSeq(change.changed, LAMBDA u : u \notin SeqRange(change.departed))

\* The changed units of the event: each fetched unit's number with the
\* settings returned for it, by ascending unit number, so that the event is
\* the same however the map was iterated.
ChangedUnits(units, settings) ==
    LET before(j, i) ==
            \/ UnitNum(units[j]) < UnitNum(units[i])
            \/ UnitNum(units[j]) = UnitNum(units[i]) /\ j < i
        rank(i) == 1 + Cardinality({j \in DOMAIN units : before(j, i)})
        at(k) == CHOOSE i \in DOMAIN units : rank(i) = k
    IN [k \in 1 .. Len(units) |->
          [UnitId |-> UnitNum(units[at(k)]), Settings |-> settings[at(k)]]]

\* The departed units of the event: their numbers.
DepartedUnits(departed) == [i \in 1 .. Len(departed) |-> UnitNum(departed[i])]

\* The event built from a unit-change batch and the settings fetched for it.
relationUnitsChangeEvent(appToken, relToken, mac, change, settings) ==
    [ZeroEvent EXCEPT !.ApplicationToken = appToken,
                      !.RelationToken = relToken,
                      !.ChangedUnits = ChangedUnits(Fetched(change), settings),
                      !.DepartedUnits = DepartedUnits(change.departed),
                      !.Macaroons = <<mac>>]

\* The settings fetch of the local side: none when there is no unit to fetch.
LocalSettingsCalls(r, units) ==
    IF units = <<>> THEN <<>>
    ELSE <<Call("RelationUnitSettings",
                <<[i \in 1 .. Len(units) |->
                     [Relation |-> RelationTag(r), Unit |-> UnitTag(units[i])]]>>,
                FALSE)>>

\* The settings fetch of the remote side, authorised by the macaroon.
RemoteSettingsCallsAppMacaroon(r, units) ==
    IF units = <<>> THEN <<>>
    ELSE <<Call("RelationUnitSettings",
                <<[i \in 1 .. Len(units) |->
                     [RelationToken |-> relations[r].relationToken,
                      Unit |-> UnitTag(units[i]),
                      Macaroons |-> <<AppMacaroon>>]]>>,
                FALSE)>>
RemoteSettingsCalls(r, units) ==
    IF units = <<>> THEN <<>>
    ELSE <<Call("RelationUnitSettings",
                <<[i \in 1 .. Len(units) |->
                     [RelationToken |-> relations[r].relationToken,
                      Unit |-> UnitTag(units[i]),
                      Macaroons |-> <<relations[r].macaroon>>]]>>,
                FALSE)>>

\* The event built from a relation-status change.
StatusSuspendedNilWhenDying(life, suspended) ==
    IF life = "dying" /\ ~suspended THEN NilBool ELSE PtrBool(suspended)
StatusSuspended(life, suspended) == PtrBool(suspended)

relationStatusChangeEvent(appToken, relToken, life, suspended) ==
    [ZeroEvent EXCEPT !.Life = life,
                      !.ApplicationToken = appToken,
                      !.RelationToken = relToken,
                      !.Suspended = StatusSuspended(life, suspended)]

\* The outcome of handing an event to a facade: on failure the owning
\* worker dies with the wrapped error.
Delivered(a, op, event, failed, err, settingsCalls) ==
    /\ calls' = settingsCalls
          \o <<Call(op, <<event>>, failed)>>
          \o (IF failed THEN WorkerKills(a) ELSE <<>>)
    /\ IF failed
       THEN /\ workers' = [workers EXCEPT ![a] = FailedWorker(a, err)]
            /\ relations' = RelationsWithout({a})
            /\ watchers' = WatchersWithout({a})
            /\ facade' = FacadeWithout({a})
       ELSE UNCHANGED <<workers, relations, watchers, facade>>

\* The side a relation-units batch came from decides where it is delivered.
UnitsDeliveryOpBothPublish(side) == "PublishRelationChange"
UnitsDeliveryOp(side) ==
    IF side = "local-units" THEN "PublishRelationChange"
    ELSE "ConsumeRemoteRelationChange"

\* Whether relation r's leaf watcher of the side can deliver a batch.
Watching(r, side) ==
    /\ workers[RelApp(r)].state = "running"
    /\ relations[r].active
    /\ watchers[r][side] > 0

localRelationUnitsChanged(r, change, held, failed) ==
    /\ Watching(r, "local-units")
    /\ LET event == relationUnitsChangeEvent(relations[r].applicationToken,
                        relations[r].relationToken, relations[r].macaroon,
                        change, RelationUnitSettings(held, Fetched(change)))
       IN Delivered(RelApp(r), UnitsDeliveryOp("local-units"), event, failed,
                    PublishError(event, Failed),
                    LocalSettingsCalls(r, Fetched(change)))
    /\ last' = [op |-> "local-units", key |-> r, change |-> change,
                held |-> held, rel |-> relations[r]]
    /\ changes' = changes + 1
    /\ UNCHANGED <<coord, appsWatcher, steps>>

remoteRelationUnitsChanged(r, change, held, failed) ==
    /\ Watching(r, "remote-units")
    /\ LET event == relationUnitsChangeEvent(relations[r].remoteAppToken,
                        relations[r].relationToken, relations[r].macaroon,
                        change, RelationUnitSettings(held, Fetched(change)))
       IN Delivered(RelApp(r), UnitsDeliveryOp("remote-units"), event, failed,
                    ConsumeError(event, Failed),
                    RemoteSettingsCalls(r, Fetched(change)))
    /\ last' = [op |-> "remote-units", key |-> r, change |-> change,
                held |-> held, rel |-> relations[r]]
    /\ changes' = changes + 1
    /\ UNCHANGED <<coord, appsWatcher, steps>>

remoteRelationStatusChanged(r, life, suspended, failed) ==
    /\ Watching(r, "remote-status")
    /\ LET event == relationStatusChangeEvent(relations[r].remoteAppToken,
                        relations[r].relationToken, life, suspended)
       IN Delivered(RelApp(r), "ConsumeRemoteRelationChange", event, failed,
                    ConsumeError(event, Failed), <<>>)
    /\ last' = [op |-> "remote-status", key |-> r, life |-> life,
                suspended |-> suspended, rel |-> relations[r]]
    /\ changes' = changes + 1
    /\ UNCHANGED <<coord, appsWatcher, steps>>

LocalUnitsChanged ==
    \E r \in Rels :
        /\ Watching(r, "local-units")
        /\ changes < MaxChanges
        /\ \E change \in UnitsChanges, failed \in BOOLEAN :
             localRelationUnitsChanged(r, change, TestSettings, failed)

RemoteUnitsChanged ==
    \E r \in Rels :
        /\ Watching(r, "remote-units")
        /\ changes < MaxChanges
        /\ \E change \in UnitsChanges, failed \in BOOLEAN :
             remoteRelationUnitsChanged(r, change, TestSettings, failed)

RemoteStatusChanged ==
    \E r \in Rels :
        /\ Watching(r, "remote-status")
        /\ changes < MaxChanges
        /\ \E life \in StatusLives, suspended \in BOOLEAN, failed \in BOOLEAN :
             remoteRelationStatusChanged(r, life, suspended, failed)

\* ------------------------------------------------------------------------
\* Termination of the worker tree.

\* The Coordinator is killed by its owner.
Kill ==
    /\ coord.state = "running"
    /\ coord' = [coord EXCEPT !.state = "dying"]
    /\ calls' = <<>>
    /\ last' = [op |-> "kill"]
    /\ UNCHANGED <<appsWatcher, workers, relations, watchers, steps, changes, facade>>

\* Whether the death of a child with an error kills the Coordinator.
IsFatalNever(err) == FALSE
IsFatal(err) == TRUE

\* The Coordinator sees that a child died of an error.
childDied(a) ==
    /\ coord.state \in {"running", "dying"}
    /\ workers[a].state = "failed"
    /\ IF IsFatal(workers[a].err)
       THEN /\ coord' = [state |-> "dying",
                         err |-> IF coord.err = NoError THEN workers[a].err
                                 ELSE coord.err]
            /\ workers' = [workers EXCEPT ![a].state = "stopped"]
       ELSE /\ coord' = coord
            /\ workers' = [workers EXCEPT ![a] = NoWorker]
    /\ calls' = <<>>
    /\ last' = [op |-> "child-died", app |-> a]
    /\ UNCHANGED <<appsWatcher, relations, watchers, steps, changes, facade>>

ChildDied == \E a \in Apps : childDied(a)

\* A running child of the dying Coordinator is killed and stops, its
\* watchers with it.
workerKilled(a) ==
    /\ coord.state = "dying"
    /\ workers[a].state = "running"
    /\ workers' = [workers EXCEPT ![a].state = "stopped", ![a].relWatcher = 0,
                                  ![a].killed = Len(WorkerKills(a))]
    /\ relations' = RelationsWithout({a})
    /\ watchers' = WatchersWithout({a})
    /\ facade' = FacadeWithout({a})
    /\ calls' = WorkerKills(a)
    /\ last' = [op |-> "worker-killed", app |-> a, waiting |-> inflight[a]]
    /\ UNCHANGED <<coord, appsWatcher, steps, changes>>

WorkerKilled == \E a \in Apps : workerKilled(a)

\* Whether the dying Coordinator may report itself stopped.
ChildrenStoppedNoWait == TRUE
ChildrenStopped == \A a \in Apps : workers[a].state \in {"none", "stopped"}

\* The Coordinator's termination completes.
CoordinatorStopped ==
    /\ coord.state = "dying"
    /\ ChildrenStopped
    /\ coord' = [coord EXCEPT !.state = "stopped"]
    /\ appsWatcher' = 0
    /\ calls' = <<Call(KillOp, <<"applications">>, FALSE)>>
    /\ last' = [op |-> "stopped", waiting |-> inflight[CoordinatorName]]
    /\ UNCHANGED <<workers, relations, watchers, steps, changes, facade>>

\* The worker tree, each batch handled as it is delivered.
Next ==
    \/ HandleApplications /\ UNCHANGED offTree
    \/ HandleRelations /\ UNCHANGED offTree
    \/ LocalUnitsChanged /\ UNCHANGED offTree
    \/ RemoteUnitsChanged /\ UNCHANGED offTree
    \/ RemoteStatusChanged /\ UNCHANGED offTree
    \/ Kill /\ UNCHANGED offTree
    \/ ChildDied /\ UNCHANGED offTree
    \/ WorkerKilled /\ UNCHANGED offTree
    \/ CoordinatorStopped /\ UNCHANGED offTree

Spec == Init /\ [][Next]_vars

\* ------------------------------------------------------------------------
\* The worker tree with its waits: a handler begins with a facade call, and
\* the worker waits inside that call until it returns, which is when the
\* handler's effects take place, or until the worker is killed.

\* The unit and status batches of the behaviours followed to termination:
\* what a batch holds does not matter there, whether its delivery fails does.
TerminationChanges == {c \in UnitsChanges : c.changed = <<>> /\ c.departed = <<UnitName(1)>>}

\* The handshake failures followed to termination: none, one that ends the
\* registration, and a watcher that cannot be started.
TerminationFailures == {0, 1, 6}

\* A running worker begins a facade call.
facadeCalled(w) ==
    /\ ~inflight[w]
    /\ IF w = CoordinatorName THEN coord.state = "running"
       ELSE workers[w].state = "running"
    /\ inflight' = [inflight EXCEPT ![w] = TRUE]
    /\ UNCHANGED <<workerVars, offWorker>>

\* Who still waits inside a facade call after a step: not those whose call
\* returned, nor the workers that stopped running.
StillWaiting(returned) ==
    [w \in Waiters |->
        /\ inflight[w]
        /\ w \notin returned
        /\ w \in Apps => workers'[w].state = "running"]

\* Whether a worker that was told to die sees it where it is: spec 5 has the
\* kill signal observed at every suspension point, so a wait inside a facade
\* call ends with the kill, without the call having to return.
SeesKillBetweenCalls(w) == ~inflight[w]
SeesKill(w) == TRUE

\* A killed worker stops, out of whatever wait it is in.
WorkerStops ==
    /\ \E a \in Apps : SeesKill(a) /\ workerKilled(a)
    /\ inflight' = StillWaiting({})
    /\ UNCHANGED offWorker

\* The Coordinator sees a child's death.
ChildDeathSeen == ChildDied /\ UNCHANGED offTree

\* The dying Coordinator stops, out of whatever wait it is in.
CoordinatorStops ==
    /\ SeesKill(CoordinatorName)
    /\ CoordinatorStopped
    /\ inflight' = StillWaiting({CoordinatorName})
    /\ UNCHANGED offWorker

TerminationNext ==
    \/ \E w \in Waiters : facadeCalled(w)
    \/ /\ inflight[CoordinatorName]
       /\ HandleApplications
       /\ inflight' = StillWaiting({CoordinatorName})
       /\ UNCHANGED offWorker
    \/ /\ \E a \in Apps, r \in Rels, result \in RelationResults :
             \E failAt \in TerminationFailures, fatal \in BOOLEAN :
                 /\ inflight[a]
                 /\ relationChanged(a, r, result, "apimac", failAt, FALSE, fatal)
                 /\ inflight' = StillWaiting({a})
       /\ UNCHANGED offWorker
    \/ /\ \E r \in Rels, change \in TerminationChanges, failed \in BOOLEAN :
             /\ inflight[RelApp(r)]
             /\ changes < MaxChanges
             /\ localRelationUnitsChanged(r, change, TestSettings, failed)
             /\ inflight' = StillWaiting({RelApp(r)})
       /\ UNCHANGED offWorker
    \/ /\ \E r \in Rels, change \in TerminationChanges, failed \in BOOLEAN :
             /\ inflight[RelApp(r)]
             /\ changes < MaxChanges
             /\ remoteRelationUnitsChanged(r, change, TestSettings, failed)
             /\ inflight' = StillWaiting({RelApp(r)})
       /\ UNCHANGED offWorker
    \/ /\ \E r \in Rels, failed \in BOOLEAN :
             /\ inflight[RelApp(r)]
             /\ changes < MaxChanges
             /\ remoteRelationStatusChanged(r, "alive", FALSE, failed)
             /\ inflight' = StillWaiting({RelApp(r)})
       /\ UNCHANGED offWorker
    \/ Kill /\ UNCHANGED offTree
    \/ ChildDeathSeen
    \/ WorkerStops
    \/ CoordinatorStops

\* The scheduling of the tree's goroutines: a worker that was told to die
\* stops, the Coordinator sees the death of a child, and it stops once its
\* last child has.  Nothing is assumed of the facades: a call that was begun
\* need never return.
Termination ==
    /\ WF_vars(ChildDeathSeen)
    /\ WF_vars(WorkerStops)
    /\ WF_vars(CoordinatorStops)

FairSpec == Init /\ [][TerminationNext]_vars /\ Termination

\* ------------------------------------------------------------------------
\* The local units watch streams of a worker with registered relations: the
\* watcher of each relation puts batches on its stream, and the relation's
\* loop takes them off one at a time and handles each.

\* The batches put on the streams: one unit changed or departed.
StreamChanges == {c \in UnitsChanges : Len(c.changed) + Len(c.departed) = 1}

\* db2's worker after both of its relations went through the handshake.
StreamInit ==
    /\ coord = [state |-> "running", err |-> NoError]
    /\ appsWatcher = 1
    /\ workers = [a \in Apps |->
          IF a = "db2"
          THEN [state |-> "running", err |-> NoError, registered |-> FALSE,
                relWatcher |-> 1, killed |-> 0]
          ELSE NoWorker]
    /\ relations = [r \in Rels |-> RegisteredRelation(r, "apimac")]
    /\ watchers = [r \in Rels |-> [s \in Sides |-> 1]]
    /\ calls = <<Call("Relations", <<<<RelOrder[2]>>>>, FALSE)>>
                  \o HandshakeCalls(RelOrder[2], "apimac", 0)
    /\ last = [op |-> "relations", app |-> "db2", key |-> RelOrder[2],
               result |-> "alive", before |-> NoRelation, watching |-> {},
               stored |-> NothingStored]
    /\ steps = 3
    /\ changes = 0
    /\ facade = [r \in Rels |->
          [sighted |-> TRUE, exported |-> TRUE, macaroon |-> "apimac",
           imported |-> TRUE]]
    /\ inflight = [w \in Waiters |-> FALSE]
    /\ StreamsEmpty
    /\ StoreEmpty
    /\ ListsEmpty

\* The batches put on the streams so far.
BatchesDelivered ==
    Len(Flatten([i \in 1 .. Len(RelOrder) |-> delivered[RelOrder[i]]]))

\* The local units watcher of relation r puts a batch on its stream.
deliverLocalUnits(r, change) ==
    /\ Watching(r, "local-units")
    /\ BatchesDelivered < MaxBatches
    /\ stream' = [stream EXCEPT ![r] = Append(@, change)]
    /\ delivered' = [delivered EXCEPT ![r] = Append(@, change)]
    /\ UNCHANGED <<coord, appsWatcher, workers, relations, watchers, calls, last,
                   steps, changes, facade, published>>

DeliverLocalUnits ==
    \E r \in Rels, change \in StreamChanges : deliverLocalUnits(r, change)

\* The position in its stream of the batch the loop takes next.
Newest(q) == Len(q)
Oldest(q) == 1

\* The events handed to PublishRelationChange among some calls.
PublishedEvents(cs) ==
    LET pubs == SelectSeq(cs, LAMBDA c : c.op = "PublishRelationChange")
    IN [i \in 1 .. Len(pubs) |-> pubs[i].args[1]]

\* The loop of relation r takes a batch off the stream and handles it.
receiveLocalUnits(r, failed) ==
    /\ stream[r] # <<>>
    /\ LET i == Oldest(stream[r])
       IN /\ localRelationUnitsChanged(r, stream[r][i], TestSettings, failed)
          /\ stream' = [stream EXCEPT ![r] =
                          SubSeq(@, 1, i - 1) \o SubSeq(@, i + 1, Len(@))]
    /\ published' = [published EXCEPT ![r] = @ \o PublishedEvents(calls')]
    /\ UNCHANGED delivered

ReceiveLocalUnits ==
    \E r \in Rels, failed \in BOOLEAN : receiveLocalUnits(r, failed)

StreamNext ==
    \/ DeliverLocalUnits /\ UNCHANGED <<inflight, persistenceVars, listVars>>
    \/ ReceiveLocalUnits /\ UNCHANGED <<inflight, persistenceVars, listVars>>
    \/ RemoteStatusChanged /\ UNCHANGED offTree

StreamSpec == StreamInit /\ [][StreamNext]_vars

\* ------------------------------------------------------------------------
\* The translation alone: the worker with both relations registered is
\* handed unit batches of every shape, the facades holding either settings.

TranslationNext ==
    \/ /\ \E r \in Rels, change \in UnitsChanges, held \in SettingsHeld :
             \E failed \in BOOLEAN :
                 /\ changes < MaxChanges
                 /\ localRelationUnitsChanged(r, change, held, failed)
       /\ UNCHANGED offTree
    \/ /\ \E r \in Rels, change \in UnitsChanges, held \in SettingsHeld :
             \E failed \in BOOLEAN :
                 /\ changes < MaxChanges
                 /\ remoteRelationUnitsChanged(r, change, held, failed)
       /\ UNCHANGED offTree

TranslationSpec == StreamInit /\ [][TranslationNext]_vars

\* ------------------------------------------------------------------------
\* The resource persistence: SetResource and SetUnitResource, the
\* transactions PersistenceBase.Run makes of them, and the other writers of
\* the collection.

\* The resources given to the calls; valid is what res.Validate() finds.
Revisions == {1, 2}
Resources == [ID : {ResourceID}, Revision : Revisions, valid : BOOLEAN]

\* The stored resource held by a document, and the document of a stored
\* resource.
doc2resource(id, doc) ==
    [Resource |-> [ID |-> id, Revision |-> doc.Revision, valid |-> TRUE],
     storagePath |-> doc.StoragePath]
newResourceDoc(stored) ==
    [present |-> TRUE, Revision |-> stored.Resource.Revision,
     StoragePath |-> stored.storagePath]

\* getOne: the document of the resource, which may be missing.
getOne(id) == store[resourceID(id)]

\* res.Validate: whether the resource is a valid one.
Validate(res) == res.valid

\* A call returns without having run a transaction.
Returns(err) ==
    /\ outcome' = err
    /\ txn' = NoTxn

\* A call of the resource persistence is made.
Called(fn, unitID, res, storagePath) ==
    request' = [fn |-> fn, unit |-> unitID, res |-> res, storagePath |-> storagePath]

\* A call hands its transaction source to PersistenceBase.Run.
Runs(fn, id, stored) ==
    /\ txn' = [fn |-> fn, id |-> id, stored |-> stored, attempt |-> 0]
    /\ outcome' = ""

\* SetResource up to its call of Run; readFails: getOne fails with an error
\* other than not found.
SetResource(res, readFails) ==
    /\ txn.fn = ""
    /\ sets < MaxSets
    /\ sets' = sets + 1
    /\ Called("SetResource", "", res, "")
    /\ LET doc == getOne(res.ID)
           stored == IF doc.present
                     THEN [doc2resource(res.ID, doc) EXCEPT !.Resource = res]
                     ELSE [NoStored EXCEPT !.Resource = res]
       IN IF readFails THEN Returns("read failed")
          ELSE IF ~Validate(res) THEN Returns("bad resource")
          ELSE Runs("SetResource", resourceID(res.ID), stored)
    /\ UNCHANGED <<store, writes>>

\* A SetUnitResource that, like SetResource, goes on with a fresh stored
\* resource when none is set for the service.
SetUnitResourceOfUnsetResource(unitID, res, readFails) ==
    /\ txn.fn = ""
    /\ sets < MaxSets
    /\ sets' = sets + 1
    /\ Called("SetUnitResource", unitID, res, "")
    /\ LET doc == getOne(res.ID)
           stored == IF doc.present
                     THEN [doc2resource(res.ID, doc) EXCEPT !.Resource = res]
                     ELSE [NoStored EXCEPT !.Resource = res]
       IN IF readFails THEN Returns("read failed")
          ELSE IF ~Validate(res) THEN Returns("bad resource")
          ELSE Runs("SetUnitResource", unitResourceID(unitID, res.ID), stored)
    /\ UNCHANGED <<store, writes>>

\* SetUnitResource up to its call of Run.
SetUnitResource(unitID, res, readFails) ==
    /\ txn.fn = ""
    /\ sets < MaxSets
    /\ sets' = sets + 1
    /\ Called("SetUnitResource", unitID, res, "")
    /\ LET doc == getOne(res.ID)
           stored == [doc2resource(res.ID, doc) EXCEPT !.Resource = res]
       IN IF readFails THEN Returns("read failed")
          ELSE IF ~doc.present THEN Returns("not found")
          ELSE IF ~Validate(res) THEN Returns("bad resource")
          ELSE Runs("SetUnitResource", unitResourceID(unitID, res.ID), stored)
    /\ UNCHANGED <<store, writes>>

\* The storage paths StageResource is given.
StoragePaths == {"", "service-a-service/resources/spam"}

\* staged.stage: the resource is added to the staging area unless one is
\* staged for the ID already.
stage(id, stored) ==
    IF store[stagedID(id)].present
    THEN /\ Returns("already exists")
         /\ UNCHANGED store
    ELSE /\ store' = [store EXCEPT ![stagedID(id)] = newResourceDoc(stored)]
         /\ Returns("ok")

\* A StageResource that stages the resource it is given as it is.
StageResourceUnvalidated(res, storagePath) ==
    /\ txn.fn = ""
    /\ sets < MaxSets
    /\ sets' = sets + 1
    /\ Called("StageResource", "", res, storagePath)
    /\ IF storagePath = ""
       THEN /\ Returns("missing storage path")
            /\ UNCHANGED store
       ELSE stage(res.ID, [Resource |-> res, storagePath |-> storagePath])
    /\ UNCHANGED writes

\* StageResource.
StageResource(res, storagePath) ==
    /\ txn.fn = ""
    /\ sets < MaxSets
    /\ sets' = sets + 1
    /\ Called("StageResource", "", res, storagePath)
    /\ IF storagePath = ""
       THEN /\ Returns("missing storage path")
            /\ UNCHANGED store
       ELSE IF ~Validate(res)
       THEN /\ Returns("bad resource")
            /\ UNCHANGED store
       ELSE stage(res.ID, [Resource |-> res, storagePath |-> storagePath])
    /\ UNCHANGED writes

\* buildTxn: the operations of an attempt.
InsertAttempt == 0
UpdateAttempt == 1
buildTxn(attempt) ==
    IF attempt = InsertAttempt THEN "insert"
    ELSE IF attempt = UpdateAttempt THEN "update"
    ELSE "error"

\* What the operations assert of the document: the insert that it is
\* missing, the update that it exists.
Asserted(ops, id) ==
    IF ops = "insert" THEN ~store[id].present ELSE store[id].present

\* One attempt of Run: it asks the source for the attempt's operations and
\* returns its error if it gives one; operations whose assertion holds are
\* applied; aborted ones are followed by the next attempt.
Run ==
    /\ txn.fn # ""
    /\ LET ops == buildTxn(txn.attempt)
       IN IF ops = "error"
          THEN /\ Returns("setting the resource failed")
               /\ UNCHANGED store
          ELSE IF Asserted(ops, txn.id)
          THEN /\ store' = [store EXCEPT ![txn.id] = newResourceDoc(txn.stored)]
               /\ Returns("ok")
          ELSE /\ txn' = [txn EXCEPT !.attempt = @ + 1]
               /\ UNCHANGED <<store, outcome>>
    /\ UNCHANGED <<sets, writes, request>>

\* Another writer inserts a document.
OtherInserts(id, rev) ==
    /\ writes < MaxWrites
    /\ ~store[id].present
    /\ store' = [store EXCEPT ![id] =
                    [present |-> TRUE, Revision |-> rev, StoragePath |-> "path"]]
    /\ writes' = writes + 1
    /\ UNCHANGED <<txn, outcome, sets, request>>

\* Another writer removes a document.
OtherRemoves(id) ==
    /\ writes < MaxWrites
    /\ store[id].present
    /\ store' = [store EXCEPT ![id] = NoDoc]
    /\ writes' = writes + 1
    /\ UNCHANGED <<txn, outcome, sets, request>>

PersistenceNext ==
    \/ /\ \E res \in Resources, readFails \in BOOLEAN : SetResource(res, readFails)
       /\ UNCHANGED <<treeVars, streamVars, listVars>>
    \/ /\ \E res \in Resources, readFails \in BOOLEAN :
             SetUnitResource(UnitID, res, readFails)
       /\ UNCHANGED <<treeVars, streamVars, listVars>>
    \/ /\ \E res \in Resources, storagePath \in StoragePaths :
             StageResource(res, storagePath)
       /\ UNCHANGED <<treeVars, streamVars, listVars>>
    \/ Run /\ UNCHANGED <<treeVars, streamVars, listVars>>
    \/ /\ \E id \in DocIDs, rev \in Revisions : OtherInserts(id, rev)
       /\ UNCHANGED <<treeVars, streamVars, listVars>>
    \/ /\ \E id \in DocIDs : OtherRemoves(id)
       /\ UNCHANGED <<treeVars, streamVars, listVars>>

PersistenceSpec == Init /\ [][PersistenceNext]_vars

\* ------------------------------------------------------------------------
\* The lists of a service's resources.

MaxDocs == 3

\* The resources, units and pending IDs of the listed service.
ResourceIDs == {"a-service/spam", "a-service/eggs"}
UnitIDs == {"a-service/0", "a-service/1"}
PendingIDs == {"some-unique-ID"}

\* The documents of the service; convertible: doc2basicResource gives no
\* error for the document.
ResourceDocs ==
    [ID : ResourceIDs, UnitID : UnitIDs \cup {""}, PendingID : PendingIDs \cup {""},
     convertible : BOOLEAN]

\* What tells one document of a resource from another: the same resource is
\* stored once for the service, once per unit and once per pending ID.
DocKey(doc) == <<doc.ID, doc.UnitID, doc.PendingID>>

\* What the resources query may return: documents of distinct keys, the
\* pending ones without a unit ID ("doc.UnitID will always be empty here").
StoredDocs ==
    {ds \in UNION {[1..n -> ResourceDocs] : n \in 0..MaxDocs} :
        /\ \A i, j \in DOMAIN ds : i # j => DocKey(ds[i]) # DocKey(ds[j])
        /\ \A i \in DOMAIN ds : ds[i].PendingID # "" => ds[i].UnitID = ""}

\* names.NewUnitTag.
NewUnitTag(unitID) == <<"unit", unitID>>
UnitTags == {NewUnitTag(u) : u \in UnitIDs}

\* doc2basicResource, for a document it converts.
doc2basicResource(doc) == [ID |-> doc.ID, PendingID |-> doc.PendingID]

\* The documents ListResources takes: a pending one is passed over.
ListedAlways(doc) == TRUE
Listed(doc) == doc.PendingID = ""

\* The documents ListPendingResources takes.
Pending(doc) == doc.PendingID # ""

\* The loop of ListResources over the documents left, from the results so
\* far; units: per unit tag the resources appended, none for a tag that is
\* not in the map.
NoUnits == [tag \in UnitTags |-> <<>>]
RECURSIVE listResources(_, _)
listResources(ds, acc) ==
    IF ds = <<>> THEN acc
    ELSE LET doc == Head(ds)
             tag == NewUnitTag(doc.UnitID)
         IN IF ~Listed(doc) THEN listResources(Tail(ds), acc)
            ELSE IF ~doc.convertible
            THEN [Resources |-> <<>>, units |-> NoUnits, err |-> "conversion failed"]
            ELSE IF doc.UnitID = ""
            THEN listResources(Tail(ds),
                     [acc EXCEPT !.Resources = Append(@, doc2basicResource(doc))])
            ELSE listResources(Tail(ds),
                     [acc EXCEPT !.units[tag] = Append(@, doc2basicResource(doc))])

\* The orders in which a range over the units map may give its keys.
RangeOrders(units) ==
    LET tags == {tag \in UnitTags : units[tag] # <<>>}
    IN {order \in [1..Cardinality(tags) -> tags] :
            \A i, j \in DOMAIN order : i # j => order[i] # order[j]}

\* ListResources; queryFails: the resources query returns an error.
ListResources(queryFails) ==
    /\ ~listed.done
    /\ LET r == listResources(docs, [Resources |-> <<>>, units |-> NoUnits, err |-> ""])
       IN IF queryFails
          THEN listed' = [NotListed EXCEPT !.done = TRUE, !.err = "query failed"]
          ELSE IF r.err # ""
          THEN listed' = [NotListed EXCEPT !.done = TRUE, !.err = r.err]
          ELSE \E order \in RangeOrders(r.units) :
                  listed' = [done |-> TRUE,
                             Resources |-> r.Resources,
                             UnitResources |->
                                 [i \in DOMAIN order |->
                                     [Tag |-> order[i], Resources |-> r.units[order[i]]]],
                             err |-> ""]
    /\ UNCHANGED <<docs, pending>>

\* The loop of ListPendingResources.
RECURSIVE listPendingResources(_, _)
listPendingResources(ds, acc) ==
    IF ds = <<>> THEN acc
    ELSE LET doc == Head(ds)
         IN IF ~Pending(doc) THEN listPendingResources(Tail(ds), acc)
            ELSE IF ~doc.convertible
            THEN [resources |-> <<>>, err |-> "conversion failed"]
            ELSE listPendingResources(Tail(ds),
                     [acc EXCEPT !.resources = Append(@, doc2basicResource(doc))])

\* ListPendingResources.
ListPendingResources(queryFails) ==
    /\ ~pending.done
    /\ LET r == listPendingResources(docs, [resources |-> <<>>, err |-> ""])
       IN IF queryFails
          THEN pending' = [NoPending EXCEPT !.done = TRUE, !.err = "query failed"]
          ELSE pending' = [done |-> TRUE, resources |-> r.resources, err |-> r.err]
    /\ UNCHANGED <<docs, listed>>

\* The service has some documents and no list was asked for.
ListInit ==
    /\ coord = [state |-> "running", err |-> NoError]
    /\ appsWatcher = 1
    /\ workers = [a \in Apps |-> NoWorker]
    /\ relations = [r \in Rels |-> NoRelation]
    /\ watchers = [r \in Rels |-> NoWatchers]
    /\ calls = <<Call("WatchRemoteApplications", <<>>, FALSE)>>
    /\ last = [op |-> "new"]
    /\ steps = 0
    /\ changes = 0
    /\ facade = [r \in Rels |-> NothingStored]
    /\ inflight = [w \in Waiters |-> FALSE]
    /\ StreamsEmpty
    /\ StoreEmpty
    /\ docs \in StoredDocs
    /\ listed = NotListed
    /\ pending = NoPending

ListNext ==
    \/ /\ \E queryFails \in BOOLEAN : ListResources(queryFails)
       /\ UNCHANGED <<treeVars, streamVars, persistenceVars>>
    \/ /\ \E queryFails \in BOOLEAN : ListPendingResources(queryFails)
       /\ UNCHANGED <<treeVars, streamVars, persistenceVars>>

ListSpec == ListInit /\ [][ListNext]_vars

\* ------------------------------------------------------------------------
\* Properties.

\* The positions of the calls of one operation made by the last handler.
CallsOf(op) == {i \in DOMAIN calls : calls[i].op = op}

\* The operations called by the last handler, in order.
CallOps == [i \in DOMAIN calls |-> calls[i].op]

\* The unit numbers of the units of the model, written out.
NumberOf(unit) == IF unit = <<"unit", "/", 1>> THEN 1 ELSE 12

\* The unit tags of the units of the model, written out.
TagOf(unit) ==
    IF unit = <<"unit", "/", 1>> THEN <<"unit", "unit", 1>>
    ELSE <<"unit", "unit", 1, 2>>

\* C1 as stated: after each Applications batch has been processed, the live
\* Remote Application Workers are the names reported in the batch minus the
\* names flagged registered (stated for the batches whose names all resolve).
C1_LiveWorkersAreBatchMinusRegistered ==
    (/\ last.op = "applications"
     /\ \A a \in SeqRange(last.batch) : last.res[a] \in {"found", "registered"}) =>
        LiveWorkers = {a \in SeqRange(last.batch) : last.res[a] # "registered"}

\* C1 as amended: after each Applications batch has been processed, the live
\* Remote Application Workers are those live before the batch, plus every
\* name of the batch the facade resolves (flagged registered or not), minus
\* every name of the batch the facade reports not found; but a name whose
\* worker died of an error, the Coordinator not having seen that death yet,
\* is still in the Coordinator's table and gets no new worker.
C1_LiveWorkersFollowResolution ==
    last.op = "applications" =>
        LET names == SeqRange(last.batch)
            resolved == {a \in names : last.res[a] \in {"found", "registered"}}
            gone == {a \in names : last.res[a] = "notfound"}
        IN LiveWorkers = ((last.before \cup resolved) \ gone) \ last.dead

\* A batch started a worker for an application flagged registered.
C1_Witness ==
    /\ last.op = "applications"
    /\ \E a \in SeqRange(last.batch) :
          /\ last.res[a] = "registered"
          /\ a \notin last.before
          /\ a \in LiveWorkers

\* C2: once the killed Coordinator's termination has completed, no Remote
\* Application Worker and no watcher under it is alive: every relations
\* watcher and every leaf watcher was killed before.
C2_NoOrphanedWatchers ==
    coord.state = "stopped" =>
        /\ LiveWorkers = {}
        /\ appsWatcher = 0
        /\ \A a \in Apps : workers[a].relWatcher = 0
        /\ \A r \in Rels : \A s \in Sides : watchers[r][s] = 0
        /\ \A r \in Rels : ~relations[r].active

\* The Coordinator stopped without error after a worker with a registered
\* relation was killed: its relations watcher and three leaf watchers.
C2_Witness ==
    /\ coord.state = "stopped"
    /\ coord.err = NoError
    /\ \E a \in Apps : workers[a].state = "stopped" /\ workers[a].killed >= 4

\* C3 as stated: when a publish call of one worker has failed, no sibling
\* worker is killed.
C3_NoSiblingKilled ==
    [][\A a \in Apps :
          workers[a].err.msg = "publishing relation change" =>
              \A b \in Apps \ {a} :
                  workers[b].state = "running" => workers'[b].state = "running"]_vars

\* C3 as amended: the failed publish itself kills exactly the owning worker
\* and leaves its siblings as they were; the dead worker is not started
\* again, and when the Coordinator sees its death the Coordinator dies with
\* an error; and a Coordinator that is no longer running starts no worker,
\* so that its siblings, killed with the Coordinator, stay stopped too.
C3_PublishFailureStopsTheTree ==
    [][\A a \in Apps :
          /\ (/\ workers[a].state = "running"
              /\ workers'[a].state = "failed"
              /\ workers'[a].err.msg = "publishing relation change") =>
                \A b \in Apps \ {a} : workers'[b] = workers[b]
          /\ workers[a].state = "failed" =>
                /\ workers'[a].state \in {"failed", "stopped"}
                /\ workers'[a].state = "stopped" =>
                      coord'.state = "dying" /\ coord'.err # NoError
          /\ (coord.state # "running" /\ workers'[a].state = "running") =>
                workers[a].state = "running"]_vars

\* The worker of db2 died of a failed publish, and its sibling was killed
\* with the Coordinator.
C3_Witness ==
    /\ coord.state = "stopped"
    /\ workers["db2"].err.msg = "publishing relation change"
    /\ workers["mysql"].state = "stopped"
    /\ workers["mysql"].err = NoError

\* C4: a failed PublishRelationChange for a local unit-change batch makes the
\* owning worker die with the cause wrapped as "publishing relation change
\* ... to remote model ...: <cause>", and a Coordinator whose child died with
\* an error terminates with that child's error.
C4_ChildErrorIsCoordinatorError ==
    /\ (last.op = "local-units" /\ \E i \in CallsOf("PublishRelationChange") : calls[i].failed) =>
          \E i \in CallsOf("PublishRelationChange") :
              /\ workers[RelApp(last.key)].state = "failed"
              /\ workers[RelApp(last.key)].err =
                    [msg |-> "publishing relation change",
                     change |-> calls[i].args[1],
                     model |-> "remote-model-uuid",
                     cause |-> "failed"]
    /\ coord.state = "stopped" =>
          IF \E a \in Apps : workers[a].err # NoError
          THEN \E a \in Apps : workers[a].err # NoError /\ coord.err = workers[a].err
          ELSE coord.err = NoError

\* The Coordinator terminated with the wrapped publish error.
C4_Witness ==
    /\ coord.state = "stopped"
    /\ coord.err.msg = "publishing relation change"
    /\ coord.err.cause = "failed"

HandshakeOps ==
    {"ExportEntities", "RegisterRemoteRelations", "SaveMacaroon", "ImportRemoteEntity"}

\* The calls that start leaf watchers.
WatchOps ==
    {"WatchLocalRelationUnits", "WatchRelationUnits", "WatchRelationSuspendedStatus"}

\* C6 as stated: a relation key reported again, alive, with no removal since
\* it was first sighted causes no handshake call and starts no watcher.
C6_NoHandshakeCallAgain ==
    (last.op = "relations" /\ last.stored.sighted /\ last.result = "alive") =>
        \A i \in DOMAIN calls : calls[i].op \notin HandshakeOps \cup WatchOps

\* C6 as amended: a relation key reported again, alive, with no removal
\* since it was first sighted causes nothing but the relation query while it
\* is registered: no handshake call, no second set of watchers, and the
\* worker's entry for the relation is left as it was; when it is not
\* registered, its handshake or the start of its watchers having failed,
\* the handshake is run again from its first call.
C6_HandshakeOncePerRelation ==
    /\ (last.op = "relations" /\ last.before.active /\ last.result = "alive") =>
          /\ last.stored.sighted
          /\ CallOps = <<"Relations">>
          /\ relations[last.key] = last.before
          /\ \A s \in Sides : watchers[last.key][s] = 1
    /\ (/\ last.op = "relations"
        /\ last.stored.sighted
        /\ ~last.before.active
        /\ last.result = "alive") =>
          /\ Len(calls) >= 2
          /\ calls[1].op = "Relations"
          /\ calls[2].op = "ControllerAPIInfoForModel"

\* A registered relation was reported again.
C6_Witness ==
    /\ last.op = "relations"
    /\ last.before.active
    /\ last.result = "alive"

\* The handshake of a new relation, in order.
HandshakeOrder ==
    <<"Relations", "ControllerAPIInfoForModel", "ExportEntities",
      "RegisterRemoteRelations", "SaveMacaroon", "ImportRemoteEntity",
      "WatchLocalRelationUnits", "WatchRelationUnits",
      "WatchRelationSuspendedStatus">>

\* C7: for a new relation of a non-registered application the calls are a
\* prefix of: relation query, controller API info, export, register, save
\* macaroon, import, local unit watch, remote unit watch, remote status
\* watch; a call is made only when every call before it succeeded; the
\* watchers are started only after the whole handshake, and the two remote
\* watches carry the macaroon the registration returned.  After a failed
\* call nothing follows but the kills of what was started, and the relation
\* is left without entry and without watcher.
C7_HandshakeOrder ==
    (/\ last.op = "relations"
     /\ ~last.before.active
     /\ last.result = "alive"
     /\ ~workers[last.app].registered) =>
        LET n == Cardinality({i \in DOMAIN calls : calls[i].op # KillOp}) IN
        /\ n \in 2 .. Len(HandshakeOrder)
        /\ SubSeq(CallOps, 1, n) = SubSeq(HandshakeOrder, 1, n)
        /\ \A i \in n + 1 .. Len(calls) : calls[i].op = KillOp
        /\ \A i \in 1 .. n - 1 : ~calls[i].failed
        /\ n >= 8 => calls[8].args[2] = <<calls[5].args[2]>>
        /\ n >= 9 => calls[9].args[2] = <<calls[5].args[2]>>
        /\ IF n < Len(HandshakeOrder) \/ calls[n].failed
           THEN /\ calls[n].failed
                /\ ~relations[last.key].active
                /\ \A s \in Sides : watchers[last.key][s] = 0
                /\ n <= 6 => Len(calls) = n
           ELSE /\ Len(calls) = n
                /\ relations[last.key].active
                /\ relations[last.key].macaroon = calls[5].args[2]
                /\ \A s \in Sides : watchers[last.key][s] = 1

\* A new relation went through the whole handshake.
C7_Witness ==
    /\ last.op = "relations"
    /\ ~last.before.active
    /\ last.result = "alive"
    /\ CallOps = HandshakeOrder
    /\ relations[last.key].active

C9_RemoteChangeConsumed ==
    last.op \in {"remote-units", "remote-status"} =>
        /\ Cardinality(CallsOf("ConsumeRemoteRelationChange")) = 1
        /\ CallsOf("PublishRelationChange") = {}
        /\ \A i \in CallsOf("ConsumeRemoteRelationChange") :
              /\ calls[i].args[1].ApplicationToken = <<"token", <<"offer", "db2", "uuid">>>>
              /\ calls[i].args[1].ApplicationToken = last.rel.remoteAppToken
              /\ calls[i].args[1].RelationToken = <<"token", last.key>>

\* A remote unit-change batch was consumed.
C9_Witness ==
    /\ last.op = "remote-units"
    /\ Len(last.change.changed) > 0
    /\ Cardinality(CallsOf("ConsumeRemoteRelationChange")) = 1

\* C10 as stated: the event built from a status-change batch reporting
\* Life=Dying and no suspension has Suspended = nil.
C10_DyingStatusHasNilSuspended ==
    (last.op = "remote-status" /\ last.life = "dying" /\ ~last.suspended) =>
        \A i \in CallsOf("ConsumeRemoteRelationChange") :
            calls[i].args[1].Suspended = <<>>

\* C10 as amended: the event built from a status-change batch always has
\* Suspended = pointer to the batch's suspended flag, so a batch reporting
\* Life=Dying and no suspension gives pointer to false; Suspended = nil is
\* what the events built from unit-change batches and the Dying notification
\* have, and it differs from pointer to false.
C10_SuspendedTriState ==
    /\ last.op = "remote-status" =>
          \A i \in CallsOf("ConsumeRemoteRelationChange") :
              /\ calls[i].args[1].Suspended = <<last.suspended>>
              /\ calls[i].args[1].Suspended # <<>>
              /\ calls[i].args[1].Life = last.life
    /\ last.op \in {"local-units", "remote-units", "relations"} =>
          \A i \in CallsOf("PublishRelationChange") \cup CallsOf("ConsumeRemoteRelationChange") :
              calls[i].args[1].Suspended = <<>>

\* A status-change batch reporting Life=Dying and no suspension was consumed
\* with Suspended = pointer to false.
C10_Witness ==
    /\ last.op = "remote-status"
    /\ last.life = "dying"
    /\ ~last.suspended
    /\ \E i \in CallsOf("ConsumeRemoteRelationChange") :
          calls[i].args[1].Suspended = <<FALSE>>

\* C11: an Applications batch subscribes exactly once to the relations of
\* each application it starts a worker for, however many names it carries;
\* and when a batch reports a running application that is found removed,
\* only that application's worker, relations watcher and leaf watchers are
\* killed: every other application's worker, relation entries (tokens and
\* macaroon) and leaf watchers are as before, and the Coordinator keeps
\* running.
C11_OnlyTheRemovedApplicationIsStopped ==
    [][(last'.op = "applications" /\ steps' = steps + 1) =>
          LET names == {last'.batch[i] : i \in DOMAIN last'.batch}
              removed == {a \in names : last'.res[a] = "notfound"
                                         /\ workers[a].state = "running"}
              started == {a \in names : last'.res[a] \in {"found", "registered"}
                                         /\ workers[a].state = "none"}
              subscriptions(a) ==
                  {i \in DOMAIN calls' :
                      /\ calls'[i].op = "WatchRemoteApplicationRelations"
                      /\ calls'[i].args = <<a>>}
          IN /\ coord' = coord
             /\ coord'.state = "running"
             /\ appsWatcher' = 1
             /\ \A a \in Apps :
                   Cardinality(subscriptions(a)) = (IF a \in started THEN 1 ELSE 0)
             /\ \A a \in started :
                   workers'[a].state = "running" /\ workers'[a].relWatcher = 1
             /\ \A a \in removed :
                   /\ workers'[a].state = "none"
                   /\ workers'[a].relWatcher = 0
                   /\ \A r \in Rels : RelApp(r) = a =>
                         ~relations'[r].active /\ watchers'[r] = [s \in Sides |-> 0]
             /\ \A a \in Apps \ removed :
                   /\ a \notin started => workers'[a] = workers[a]
                   /\ \A r \in Rels : RelApp(r) = a =>
                         relations'[r] = relations[r] /\ watchers'[r] = watchers[r]
             /\ \A i \in DOMAIN calls' :
                   calls'[i].op = KillOp =>
                       \/ calls'[i].args[1] \in removed
                       \/ \E r \in Rels : r = calls'[i].args[1] /\ RelApp(r) \in removed
      ]_vars

\* mysql, started by an earlier batch, was reported and found removed while
\* db2's worker runs with a registered relation and its three leaf watchers.
C11_Witness ==
    /\ last.op = "applications"
    /\ last.batch = <<"mysql">>
    /\ last.res["mysql"] = "notfound"
    /\ "mysql" \in last.before
    /\ workers["mysql"].state = "none"
    /\ workers["db2"].state = "running"
    /\ workers["db2"].relWatcher = 1
    /\ \E r \in Rels : relations[r].active /\ \A s \in Sides : watchers[r][s] = 1

\* C12: the relations of a remote application flagged registered are
\* watched, but a relations batch of such an application causes the relation
\* query and nothing else: no ControllerAPIInfoForModel, ExportEntities,
\* RegisterRemoteRelations, SaveMacaroon or ImportRemoteEntity, and no unit
\* or status watcher is ever started under it.
C12_RegisteredApplicationOnlyQueried ==
    /\ \A a \in Apps :
          (workers[a].state = "running" /\ workers[a].registered) =>
              workers[a].relWatcher = 1
    /\ (last.op = "relations" /\ workers[last.app].registered) =>
          /\ CallOps = <<"Relations">>
          /\ calls[1].args = <<<<last.key>>>>
          /\ ~last.before.active
          /\ last.watching = {}
    /\ \A r \in Rels :
          (workers[RelApp(r)].state = "running" /\ workers[RelApp(r)].registered) =>
              /\ ~relations[r].active
              /\ \A s \in Sides : watchers[r][s] = 0

\* The worker of a registered application was told of a new, live relation.
C12_Witness ==
    /\ last.op = "relations"
    /\ workers[last.app].state = "running"
    /\ workers[last.app].registered
    /\ last.result = "alive"
    /\ Len(calls) = 1

\* C13: whatever batches were processed (a key added, repeated, reported
\* Dying or removed; an application added, repeated or removed), each
\* relation key has at most one live set of leaf watchers, with at most one
\* live handle per side, and only while the relation is in the table of a
\* running worker; and each application name has at most one live Remote
\* Application Worker with one relations watcher.
C13_AtMostOneOfEach ==
    /\ appsWatcher \in 0 .. 1
    /\ \A a \in Apps :
          /\ workers[a].relWatcher \in 0 .. 1
          /\ workers[a].relWatcher = 1 <=> workers[a].state = "running"
    /\ \A r \in Rels :
          /\ \A s \in Sides : watchers[r][s] \in 0 .. 1
          /\ relations[r].active =>
                /\ \A s \in Sides : watchers[r][s] = 1
                /\ workers[RelApp(r)].state = "running"
          /\ ~relations[r].active => \A s \in Sides : watchers[r][s] = 0

\* A relation of db2 is registered and db2 was then reported again by the
\* applications watcher.
C13_Witness ==
    /\ last.op = "applications"
    /\ "db2" \in last.before
    /\ "db2" \in SeqRange(last.batch)
    /\ last.res["db2"] = "found"
    /\ workers["db2"].relWatcher = 1
    /\ \E r \in Rels : relations[r].active /\ \A s \in Sides : watchers[r][s] = 1

\* C14: within one relation the local unit batches are published in the
\* order the local watch stream delivered them: the events handed to
\* PublishRelationChange for a relation are the batches delivered on its
\* stream so far, translated one for one and in the same order, the batches
\* not yet published are the rest of the delivered ones, still in order, and
\* none is merged with another or dropped, however the batches and status
\* changes of the other relation interleave.
C14_PublishedInDeliveredOrder ==
    \A r \in Rels :
        LET n == Len(published[r]) IN
        /\ n <= Len(delivered[r])
        /\ stream[r] = SubSeq(delivered[r], n + 1, Len(delivered[r]))
        /\ \A i \in 1 .. n :
              LET ev == published[r][i]
                  ch == delivered[r][i].changed
                  dp == delivered[r][i].departed
              IN /\ ev.RelationToken = <<"token", r>>
                 /\ ev.ChangedUnits =
                       [k \in 1 .. Len(ch) |->
                           [UnitId |-> NumberOf(ch[k]),
                            Settings |-> [foo |-> "bar"]]]
                 /\ ev.DepartedUnits = [k \in 1 .. Len(dp) |-> NumberOf(dp[k])]

\* Two different batches of one relation were published while a batch of
\* the other relation was delivered between them and still waits.
C14_Witness ==
    \E r, q \in Rels :
        /\ r # q
        /\ Len(published[r]) = 2
        /\ delivered[r][1] # delivered[r][2]
        /\ Len(delivered[q]) = 1
        /\ Len(stream[q]) = 1

C17_UnresolvedNameIsSkipped ==
    [][/\ (last'.op = "applications" /\ steps' = steps + 1) =>
             LET names == {last'.batch[i] : i \in DOMAIN last'.batch}
                 unresolved == {a \in names : last'.res[a] = "error"}
             IN /\ unresolved # {} => (coord' = coord /\ coord'.state = "running")
                /\ \A a \in unresolved :
                      /\ workers'[a] = workers[a]
                      /\ \A r \in Rels : RelApp(r) = a =>
                            relations'[r] = relations[r] /\ watchers'[r] = watchers[r]
                      /\ \A i \in DOMAIN calls' :
                            /\ calls'[i].op = "WatchRemoteApplicationRelations" =>
                                  calls'[i].args # <<a>>
                            /\ calls'[i].op = KillOp =>
                                  /\ calls'[i].args[1] # a
                                  /\ \A r \in Rels : RelApp(r) = a => calls'[i].args[1] # r
                /\ \A b \in Apps \ names : workers'[b] = workers[b]
                /\ \A b \in names \ unresolved :
                      IF workers[b].state = "failed"
                      THEN workers'[b] = workers[b]
                      ELSE /\ last'.res[b] \in {"found", "registered"} =>
                                 workers'[b].state = "running"
                           /\ last'.res[b] = "notfound" => workers'[b].state = "none"
       /\ \A a \in Apps :
             (workers[a].state # "running" /\ workers'[a].state = "running") =>
                 /\ last'.op = "applications"
                 /\ \E i \in DOMAIN last'.batch : last'.batch[i] = a
                 /\ last'.res[a] \in {"found", "registered"}
      ]_vars

\* db2, whose worker runs, failed to resolve in a batch that started the
\* worker of mysql: db2's worker runs on.
C17_Witness ==
    /\ last.op = "applications"
    /\ Len(last.batch) = 2
    /\ last.res["db2"] = "error"
    /\ last.res["mysql"] = "found"
    /\ "db2" \in last.before
    /\ "mysql" \notin last.before
    /\ workers["db2"].state = "running"
    /\ workers["mysql"].state = "running"
    /\ coord.state = "running"

\* C18: when the Dying notification of a removed or dying relation fails,
\* the failure goes no further: the relation's three leaf watchers are
\* killed all the same and its entry (tokens, macaroon) is discarded, the
\* owning worker runs on with its relations watcher, the other relations
\* and the Coordinator are as before; and no worker and no Coordinator ever
\* dies of a failed Dying notification.
C18_DyingFailureIsNotEscalated ==
    [][/\ (/\ last'.op = "relations"
           /\ steps' = steps + 1
           /\ relations[last'.key].active
           /\ last'.result \in {"dying", "notfound"}
           /\ \E i \in DOMAIN calls' :
                 calls'[i].op = "PublishRelationChange" /\ calls'[i].failed) =>
              LET key == last'.key
                  kills == {i \in DOMAIN calls' : calls'[i].op = "Kill"}
              IN /\ {calls'[i].args : i \in kills} = {<<key, s>> : s \in Sides}
                 /\ Cardinality(kills) = 3
                 /\ \A s \in Sides : watchers[key][s] = 1 /\ watchers'[key][s] = 0
                 /\ relations'[key] =
                       [active |-> FALSE, relationToken |-> <<>>,
                        applicationToken |-> <<>>, remoteAppToken |-> <<>>,
                        macaroon |-> ""]
                 /\ \A r \in Rels \ {key} :
                       relations'[r] = relations[r] /\ watchers'[r] = watchers[r]
                 /\ workers' = workers
                 /\ workers'[last'.app].state = "running"
                 /\ workers'[last'.app].relWatcher = 1
                 /\ coord' = coord
       /\ coord'.err.msg = "publishing relation change" =>
             coord'.err.change.Life # "dying"
       /\ \A a \in Apps :
             workers'[a].err.msg = "publishing relation change" =>
                 workers'[a].err.change.Life # "dying"
      ]_vars

\* The Dying notification of a relation reported Dying failed: the worker
\* and the Coordinator run on.
C18_Witness ==
    /\ last.op = "relations"
    /\ last.before.active
    /\ last.result = "dying"
    /\ \E i \in CallsOf("PublishRelationChange") : calls[i].failed
    /\ ~relations[last.key].active
    /\ workers[last.app].state = "running"
    /\ coord = [state |-> "running", err |-> NoError]

C20_SettlesWithinTwoAttempts ==
    /\ txn.fn # "" => txn.attempt \in {0, 1}
    /\ outcome # "setting the resource failed"

\* ------------------------------------------------------------------------
\* C21: a call of SetUnitResource that finds no stored document for the
\* resource ID returns a not-found error, hands no transaction to Run and
\* leaves the collection as it was; a call of SetResource that finds none
\* does not fail on that account: with a valid resource it hands Run a
\* transaction for the resource's document, holding the given resource and
\* no storage path, without an error, and the first attempt of a SetResource
\* transaction inserts the document of the given resource if it is missing.
C21_Missing(id) == ~store[<<"resource", id>>].present

C21_UnitResourceNeedsTheResourceSet ==
    [][/\ ( /\ sets' = sets + 1
            /\ outcome' # "read failed"
            /\ C21_Missing(request'.res.ID) )
          => /\ request'.fn = "SetUnitResource"
                  => /\ outcome' = "not found"
                     /\ txn'.fn = ""
                     /\ store' = store
             /\ request'.fn = "SetResource"
                  => /\ outcome' # "not found"
                     /\ request'.res.valid
                          => /\ outcome' = ""
                             /\ txn' = [fn |-> "SetResource",
                                        id |-> <<"resource", request'.res.ID>>,
                                        stored |-> [Resource |-> request'.res,
                                                    storagePath |-> ""],
                                        attempt |-> 0]
                             /\ store' = store
       /\ ( /\ txn.fn = "SetResource"
            /\ txn.attempt = 0
            /\ ~store[txn.id].present
            /\ txn' # txn )
          => /\ outcome' = "ok"
             /\ store' = [store EXCEPT ![txn.id] =
                             [present |-> TRUE,
                              Revision |-> request.res.Revision,
                              StoragePath |-> txn.stored.storagePath]]
      ]_vars

\* SetUnitResource was called with a valid resource that is not set for the
\* service, and returned the not-found error.
C21_Witness ==
    /\ request.fn = "SetUnitResource"
    /\ request.res.valid
    /\ outcome = "not found"
    /\ txn.fn = ""
    /\ \A id \in DocIDs : ~store[id].present

\* ------------------------------------------------------------------------
\* C22: the two lists split the documents of the service between them.  In
\* a list ListResources returned without an error, every document with an
\* empty pending ID is there exactly once, among the service's resources if
\* its unit ID is empty and else in the one entry of its unit, and nothing
\* else is there; in a list ListPendingResources returned without an error,
\* every document with a pending ID is there exactly once, and nothing else
\* is there.  No document with a pending ID is ever in what ListResources
\* returned, none without in what ListPendingResources returned, and a call
\* that returned an error returned no resource.
C22_Count(seq, x) == Cardinality({i \in DOMAIN seq : seq[i] = x})

C22_EntriesOf(unitID) ==
    {k \in DOMAIN listed.UnitResources : listed.UnitResources[k].Tag = <<"unit", unitID>>}

C22_Slots ==
    {<<0, j>> : j \in DOMAIN listed.Resources}
    \cup UNION {{<<k, j>> : j \in DOMAIN listed.UnitResources[k].Resources} :
                    k \in DOMAIN listed.UnitResources}

C22_ListsPartitionTheDocuments ==
    /\ \A i \in DOMAIN docs :
          LET doc == docs[i]
              res == [ID |-> doc.ID, PendingID |-> doc.PendingID]
          IN /\ (doc.PendingID = "" /\ listed.done /\ listed.err = "")
                    => IF doc.UnitID = ""
                       THEN C22_Count(listed.Resources, res) = 1
                       ELSE /\ Cardinality(C22_EntriesOf(doc.UnitID)) = 1
                            /\ \A k \in C22_EntriesOf(doc.UnitID) :
                                   C22_Count(listed.UnitResources[k].Resources, res) = 1
             /\ (doc.PendingID # "" /\ pending.done /\ pending.err = "")
                    => C22_Count(pending.resources, res) = 1
    /\ (listed.done /\ listed.err = "")
          => Cardinality(C22_Slots)
                 = Cardinality({i \in DOMAIN docs : docs[i].PendingID = ""})
    /\ (pending.done /\ pending.err = "")
          => Len(pending.resources)
                 = Cardinality({i \in DOMAIN docs : docs[i].PendingID # ""})
    /\ \A j \in DOMAIN listed.Resources : listed.Resources[j].PendingID = ""
    /\ \A k \in DOMAIN listed.UnitResources :
          /\ listed.UnitResources[k].Resources # <<>>
          /\ \A j \in DOMAIN listed.UnitResources[k].Resources :
                 listed.UnitResources[k].Resources[j].PendingID = ""
    /\ \A j \in DOMAIN pending.resources : pending.resources[j].PendingID # ""
    /\ listed.err # "" => listed.Resources = <<>> /\ listed.UnitResources = <<>>
    /\ pending.err # "" => pending.resources = <<>>

\* Both lists were returned for the service's document, a unit's document
\* and a pending document of the same resource.
C22_Witness ==
    /\ listed.done /\ listed.err = ""
    /\ pending.done /\ pending.err = ""
    /\ Len(docs) = 3
    /\ \E h, i, j \in DOMAIN docs :
          /\ docs[h].PendingID = "" /\ docs[h].UnitID = ""
          /\ docs[i].PendingID = "" /\ docs[i].UnitID # "" /\ docs[i].ID = docs[h].ID
          /\ docs[j].PendingID # "" /\ docs[j].ID = docs[h].ID
    /\ Len(listed.Resources) = 1
    /\ Len(listed.UnitResources) = 1
    /\ Len(pending.resources) = 1

\* ------------------------------------------------------------------------
\* C23 as stated: SetResource and SetUnitResource given a resource that
\* fails validation return the "bad resource" error.
C23_InvalidResourceIsABadResource ==
    [][(/\ sets' = sets + 1
        /\ request'.fn \in {"SetResource", "SetUnitResource"}
        /\ ~request'.res.valid)
          => outcome' = "bad resource"]_vars

\* C23 as amended: the write operations write nothing on invalid input.
\* StageResource given an empty storage path returns "missing storage path",
\* and given a storage path and an invalid resource returns "bad resource";
\* SetResource and SetUnitResource read the stored resource before they
\* validate, so given an invalid resource they return the error of the read
\* when it fails (a read error, or for SetUnitResource "not found" when the
\* resource is not set) and "bad resource" otherwise.  A call that is given
\* invalid input, or returns one of the two errors, hands no transaction to
\* Run and leaves the collection as it was.
C23_Invalid == ~request'.res.valid

C23_NothingWrittenOnInvalidInput ==
    [][sets' = sets + 1
          => /\ (request'.fn = "StageResource" /\ request'.storagePath = "")
                  => outcome' = "missing storage path"
             /\ (request'.fn = "StageResource" /\ request'.storagePath # "" /\ C23_Invalid)
                  => outcome' = "bad resource"
             /\ (request'.fn = "SetResource" /\ C23_Invalid)
                  => outcome' \in {"bad resource", "read failed"}
             /\ (request'.fn = "SetUnitResource" /\ C23_Invalid)
                  => outcome' \in {"read failed",
                                   IF store[<<"resource", request'.res.ID>>].present
                                   THEN "bad resource" ELSE "not found"}
             /\ outcome' = "missing storage path"
                  => request'.fn = "StageResource" /\ request'.storagePath = ""
             /\ outcome' = "bad resource" => C23_Invalid
             /\ ( \/ C23_Invalid
                  \/ outcome' \in {"missing storage path", "bad resource"} )
                  => /\ store' = store
                     /\ txn'.fn = ""
                     /\ outcome' \notin {"", "ok"}
      ]_vars

\* StageResource was given a storage path and an invalid resource, with
\* nothing staged, and returned the validation error.
C23_Witness ==
    /\ request.fn = "StageResource"
    /\ request.storagePath # ""
    /\ ~request.res.valid
    /\ outcome = "bad resource"
    /\ ~store[<<"resource", request.res.ID, "staged">>].present

====
